---- MODULE Spec2Model ----
(***************************************************************************)
(* A model of cocpy.client.COCClient: the endpoint methods' argument       *)
(* shaping (_encode_tag, _paging_params) and the request pipeline          *)
(* (_request, _parse_retry_after) with its retry loop and error mapping.   *)
(*                                                                         *)
(* Conventions.  A Python Optional[T] is a sequence of length 0 (None) or  *)
(* 1 (the value).  A Python str that the code inspects is a sequence of    *)
(* one-character strings.  Seconds are integers.                           *)
(***************************************************************************)
EXTENDS Integers, Sequences, FiniteSets, TLC

VARIABLES
    max_retries,  \* COCClient.max_retries
    backoff,      \* COCClient.backoff
    endpoint,     \* the public method that was called ("" before the call)
    tag_arg,      \* its tag argument (<<>> when the method takes none)
    limit,        \* its paging arguments, each an Optional
    after,
    before,
    paging,       \* the dict _paging_params returned to the method
    http,         \* what _request was called with: method, url, params, json
    pc,           \* "init", "request" (top of the retry loop), "done"
    attempt,      \* the loop variable of _request
    requests,     \* number of calls of self._session.request so far
    sleeps,       \* the arguments passed to time.sleep, in order
    trace,        \* the transport outcomes of the attempts, in order
    result,       \* how the call ended: a returned value or a raised exception
    tag,          \* tag normaliser: the raw input
    norm,         \* tag normaliser: the tag after line 279
    seg,          \* tag normaliser: the encoded path segment
    tpc,          \* tag normaliser: "idle", "raw", "encoded", "reencoded"
    calls         \* two calls in flight: the locals of each _request frame

cvars == <<max_retries, backoff>>
avars == <<endpoint, tag_arg, limit, after, before, paging, http>>
rvars == <<pc, attempt, requests, sleeps, trace, result>>
tvars == <<tag, norm, seg, tpc>>
vars == <<max_retries, backoff, endpoint, tag_arg, limit, after, before, paging, http,
          pc, attempt, requests, sleeps, trace, result, tag, norm, seg, tpc, calls>>

----
\* Bounds of the model.
MaxRetriesBound == 2   \* max_retries ranges over 0..MaxRetriesBound
MaxBackoff == 2        \* backoff ranges over 0..MaxBackoff
MaxTagLen == 3         \* raw tags have at most MaxTagLen characters

\* Python's None and Some(x) for Optional values.
None == <<>>
Some(x) == <<x>>

----
\* ------------------------------------------------------------------------
\* _encode_tag (client.py 273-280)
\* ------------------------------------------------------------------------

\* The characters raw tags are built from: whitespace, the hash sign,
\* a lower-case and an upper-case letter, a digit.
TagChars == {" ", "#", "a", "A", "2"}

RECURSIVE SeqsUpTo(_, _)
SeqsUpTo(S, n) ==
    IF n = 0 THEN {<<>>}
    ELSE LET shorter == SeqsUpTo(S, n - 1)
         IN  shorter \cup {Append(s, c) : s \in {x \in shorter : Len(x) = n - 1}, c \in S}

Tags == SeqsUpTo(TagChars, MaxTagLen)

IsSpace(c) == c = " "

\* The ASCII letters, lower case and upper case in the same order.
LowerLetters ==
    <<"a", "b", "c", "d", "e", "f", "g", "h", "i", "j", "k", "l", "m",
      "n", "o", "p", "q", "r", "s", "t", "u", "v", "w", "x", "y", "z">>
UpperLetters ==
    <<"A", "B", "C", "D", "E", "F", "G", "H", "I", "J", "K", "L", "M",
      "N", "O", "P", "Q", "R", "S", "T", "U", "V", "W", "X", "Y", "Z">>
IndexIn(seq, c) == CHOOSE i \in 1..Len(seq) : seq[i] = c
IsIn(seq, c) == \E i \in 1..Len(seq) : seq[i] = c

\* str.upper() and str.lower() on the characters of the model.
UpperChar(c) == IF IsIn(LowerLetters, c) THEN UpperLetters[IndexIn(LowerLetters, c)] ELSE c
LowerChar(c) == IF IsIn(UpperLetters, c) THEN LowerLetters[IndexIn(UpperLetters, c)] ELSE c
upper(s) == [i \in 1..Len(s) |-> UpperChar(s[i])]
lower(s) == [i \in 1..Len(s) |-> LowerChar(s[i])]

\* str.lstrip() / str.rstrip() / str.strip() with no argument: whitespace.
RECURSIVE lstrip_space(_)
lstrip_space(s) ==
    IF s # <<>> /\ IsSpace(Head(s)) THEN lstrip_space(Tail(s)) ELSE s

RECURSIVE rstrip_space(_)
rstrip_space(s) ==
    IF s # <<>> /\ IsSpace(s[Len(s)]) THEN rstrip_space(SubSeq(s, 1, Len(s) - 1)) ELSE s

strip(s) == rstrip_space(lstrip_space(s))

\* A mutant of lstrip_hash: removes one leading "#" only.
lstrip_one_hash(s) ==
    IF s # <<>> /\ Head(s) = "#" THEN Tail(s) ELSE s

\* str.lstrip("#"): removes every leading "#".
RECURSIVE lstrip_hash(_)
lstrip_hash(s) ==
    IF s # <<>> /\ Head(s) = "#" THEN lstrip_hash(Tail(s)) ELSE s

\* urllib.parse.quote(c, safe=''): letters and digits are kept, every other
\* character becomes its %XX escape.
QuoteChar(c) ==
    IF IsIn(LowerLetters, c) \/ IsIn(UpperLetters, c) \/ c \in {"0", "1", "2", "3", "4", "5", "6", "7", "8", "9"}
    THEN c
    ELSE IF c = " " THEN "%20"
    ELSE IF c = "#" THEN "%23"
    ELSE "%3F"
quote(s) == [i \in 1..Len(s) |-> QuoteChar(s[i])]

\* Line 279: t = tag.strip().upper().lstrip("#")
normalize_tag(t) == lstrip_hash(upper(strip(t)))

\* Line 280: f"%23{quote(t, safe='')}"
encode_tag(t) == <<"%23">> \o quote(normalize_tag(t))

----
\* ------------------------------------------------------------------------
\* errors.py: the exception classes, and the built-in ones that can escape
\* ------------------------------------------------------------------------

\* The base class of each exception class (errors.py 1-11; ValueError,
\* AssertionError are built in; resp.json() raises requests' JSONDecodeError,
\* a ValueError and not a COCAPIError).
BaseOf(cls) ==
    CASE cls = "AuthError" -> "COCAPIError"
      [] cls = "NotFoundError" -> "COCAPIError"
      [] cls = "RateLimitError" -> "COCAPIError"
      [] cls = "COCAPIError" -> "Exception"
      [] cls = "JSONDecodeError" -> "ValueError"
      [] cls = "ValueError" -> "Exception"
      [] cls = "AssertionError" -> "Exception"
      [] OTHER -> "BaseException"

\* issubclass(cls, of): what `except of:` catches.
RECURSIVE IsSubclass(_, _)
IsSubclass(cls, of) ==
    \/ cls = of
    \/ cls \notin {"Exception", "BaseException"} /\ IsSubclass(BaseOf(cls), of)

\* How a call ended.  status/text are the pieces of the exception's message,
\* cause is the exception it was raised from.
NoResult ==
    [kind |-> "none", exc |-> "", status |-> 0, text |-> <<>>, cause |-> "", value |-> ""]
Returned(v) ==
    [kind |-> "return", exc |-> "", status |-> 0, text |-> <<>>, cause |-> "", value |-> v]
Raised(cls, st, txt, cause) ==
    [kind |-> "raise", exc |-> cls, status |-> st, text |-> txt, cause |-> cause, value |-> ""]

----
\* ------------------------------------------------------------------------
\* _paging_params (client.py 282-293) and the endpoint methods
\* ------------------------------------------------------------------------

\* A limit argument is an int or a str of decimal digits; both are accepted
\* by int().
IntV(n) == [type |-> "int", int |-> n, str |-> <<>>]
StrV(s) == [type |-> "str", int |-> 0, str |-> s]

Digits == <<"0", "1", "2", "3", "4", "5", "6", "7", "8", "9">>
IsDigit(c) == \E i \in 1..Len(Digits) : Digits[i] = c
DigitValue(c) == (CHOOSE i \in 1..Len(Digits) : Digits[i] = c) - 1

RECURSIVE DecimalValue(_)
DecimalValue(s) ==
    IF s = <<>> THEN 0
    ELSE 10 * DecimalValue(SubSeq(s, 1, Len(s) - 1)) + DigitValue(s[Len(s)])

\* An optional sign followed by at least one digit: the numerals of the model
\* that int() and float() accept.
Unsigned(s) == IF s # <<>> /\ Head(s) \in {"-", "+"} THEN Tail(s) ELSE s
IsNumeral(s) ==
    /\ Unsigned(s) # <<>>
    /\ \A i \in 1..Len(Unsigned(s)) : IsDigit(Unsigned(s)[i])
NumeralValue(s) ==
    IF s # <<>> /\ Head(s) = "-" THEN 0 - DecimalValue(Unsigned(s))
    ELSE DecimalValue(Unsigned(s))

\* A mutant of int: a str is not parsed.
int_of_int_only(v) == IF v.type = "int" THEN v.int ELSE 0

\* int(limit), line 286.
int(v) == IF v.type = "int" THEN v.int ELSE NumeralValue(v.str)

LimitValues == {None, Some(IntV(50)), Some(StrV(<<"7">>))}
AfterValues == {None, Some("a")}
BeforeValues == {None, Some("b")}

\* A mutant of BothCursors: the guard is taken only when no limit is given.
BothCursorsUnlessLimit(lim, aft, bef) == lim = None /\ aft # None /\ bef # None

\* Line 287: after is not None and before is not None.
BothCursors(lim, aft, bef) == aft # None /\ bef # None

\* _paging_params: raised is TRUE when it raises ValueError, and params is
\* the dict it returns otherwise (a function from the keys set to values).
paging_params(lim, aft, bef) ==
    LET keys == {k \in {"limit", "after", "before"} :
                    \/ k = "limit" /\ lim # None
                    \/ k = "after" /\ aft # None
                    \/ k = "before" /\ bef # None}
    IN  [raised |-> BothCursors(lim, aft, bef),
         params |-> [k \in keys |->
                        IF k = "limit" THEN IntV(int(lim[1]))
                        ELSE IF k = "after" THEN StrV(<<aft[1]>>)
                        ELSE StrV(<<bef[1]>>)]]

\* The endpoint methods of the model: their paths and whether they page.
PagingEndpoints == {"list_clan_members", "list_locations"}
TagEndpoints == {"list_clan_members", "get_player", "verify_player_token"}
Endpoints == PagingEndpoints \cup TagEndpoints

\* The clan tag of examples/show_player_and_clan.py.
CallTags == {<<"#", "2", "G", "P", "V", "U", "Q", "Y", "P", "J">>}

\* COCClient.base_url after rstrip("/") (lines 24, 30).
BaseUrl == <<"https://api.clashofclans.com/v1">>

\* A mutant of PathOf: the tag goes into the path as it was given.
PathOfRawTag(ep, tg) ==
    CASE ep = "get_player" -> <<"/players/">> \o tg
      [] ep = "verify_player_token" -> <<"/players/">> \o tg \o <<"/verifytoken">>
      [] ep = "list_clan_members" -> <<"/clans/">> \o tg \o <<"/members">>
      [] ep = "list_locations" -> <<"/locations">>

\* The path each method builds (lines 46, 51, 102, 195).
PathOf(ep, tg) ==
    CASE ep = "get_player" -> <<"/players/">> \o encode_tag(tg)
      [] ep = "verify_player_token" -> <<"/players/">> \o encode_tag(tg) \o <<"/verifytoken">>
      [] ep = "list_clan_members" -> <<"/clans/">> \o encode_tag(tg) \o <<"/members">>
      [] ep = "list_locations" -> <<"/locations">>

\* The HTTP method and the JSON body of each method (lines 47, 52-53).
MethodOf(ep) == IF ep = "verify_player_token" THEN "POST" ELSE "GET"
PlayerToken == "tok"
JsonOf(ep) == IF ep = "verify_player_token" THEN Some([token |-> PlayerToken]) ELSE None

\* `params or None`: an empty dict is sent as None.
OrNone(d) == IF DOMAIN d = {} THEN None ELSE Some(d)

NoHttp == [method |-> "", url |-> <<>>, params |-> None, json |-> None]

----
\* ------------------------------------------------------------------------
\* _parse_retry_after (client.py 334-341) and _request (client.py 295-332)
\* ------------------------------------------------------------------------

\* What self._session.request can do on one attempt: return a response, or
\* raise requests.Timeout or requests.ConnectionError.
Statuses == {100, 200, 204, 301, 400, 401, 403, 404, 429, 500}

\* Retry-After header values (resp.headers.get gives None when absent):
\* absent, empty, not a number, zero, positive, negative.
RetryAfterValues ==
    {None, Some(<<>>), Some(<<"x">>), Some(<<"0">>), Some(<<"1">>), Some(<<"-", "1">>)}

\* Response bodies: a JSON object, a truncated object, an empty body.
Bodies == {<<"{", "}">>, <<"{">>, <<>>}

Response(st, hd, body) == [kind |-> "response", status |-> st, header |-> hd, body |-> body]
TransportError(cls) == [kind |-> cls, status |-> 0, header |-> None, body |-> <<>>]

\* The outcomes of one attempt.  The code reads the Retry-After header of a
\* 429 only, and the body of every other response only.
Outcomes ==
    {Response(429, hd, <<>>) : hd \in RetryAfterValues}
    \cup {Response(st, None, body) : st \in Statuses \ {429}, body \in Bodies}
    \cup {TransportError("Timeout"), TransportError("ConnectionError")}

\* resp.json(), line 324: the decoded value, or None when decoding raises.
json(body) ==
    IF body = <<"{", "}">> THEN Some("dict")
    ELSE IF body = <<"[", "]">> THEN Some("list")
    ELSE None

\* _parse_retry_after: None for an absent or empty value (`if not value`),
\* float(value) when it parses, None on ValueError.
parse_retry_after(value) ==
    IF value = None \/ value[1] = <<>> THEN None
    ELSE IF IsNumeral(value[1]) THEN Some(NumeralValue(value[1]))
    ELSE None

\* A mutant of exp_backoff: the same delay before every retry.
const_backoff(b, a) == b

\* backoff * (2 ** attempt), lines 313 and 330.
exp_backoff(b, a) == b * (2 ^ a)

\* A mutant of retry_delay: the larger of the header value and the backoff.
retry_delay_max(hd, b, a) ==
    LET p == parse_retry_after(hd)
    IN  IF p # None /\ p[1] > exp_backoff(b, a) THEN p[1] ELSE exp_backoff(b, a)

\* Line 313: self._parse_retry_after(...) or self.backoff * (2 ** attempt).
\* Python's `or` takes the right operand when the left is None or 0.0.
retry_delay(hd, b, a) ==
    LET p == parse_retry_after(hd)
    IN  IF p # None /\ p[1] # 0 THEN p[1] ELSE exp_backoff(b, a)

\* A mutant of is_last_attempt: the budget is found exhausted one attempt
\* too late.
is_last_attempt_late(a, mr) == a = mr + 1

\* Lines 311 and 328: attempt == self.max_retries.
is_last_attempt(a, mr) == a = mr

\* A mutant of error_class: 403 is not mapped to AuthError.
error_class_no_403(st) ==
    IF st = 401 THEN "AuthError"
    ELSE IF st = 404 THEN "NotFoundError"
    ELSE IF st >= 400 THEN "COCAPIError"
    ELSE ""

\* Lines 317-322: the exception class a non-429 status raises, "" for none.
error_class(st) ==
    IF st \in {401, 403} THEN "AuthError"
    ELSE IF st = 404 THEN "NotFoundError"
    ELSE IF st >= 400 THEN "COCAPIError"
    ELSE ""

\* What one pass through the loop body does with the outcome o of the
\* transport call: next is "continue" or "done", sleep is the argument passed
\* to time.sleep if it was called, result is how the call ended.
Continue(delay) == [next |-> "continue", sleep |-> Some(delay), result |-> NoResult]
Finish(res) == [next |-> "done", sleep |-> None, result |-> res]

\* time.sleep(delay) followed by the next iteration; time.sleep raises
\* ValueError for a negative argument, which no except clause of _request
\* catches.
SleepAndContinue(delay) ==
    IF delay < 0
    THEN [next |-> "done", sleep |-> Some(delay),
          result |-> Raised("ValueError", 0, <<>>, "")]
    ELSE Continue(delay)

LoopBody(o, a, mr, b) ==
    IF o.kind # "response" THEN
        \* except (requests.Timeout, requests.ConnectionError) as e:
        IF is_last_attempt(a, mr)
        THEN Finish(Raised("COCAPIError", 0, <<o.kind>>, o.kind))
        ELSE SleepAndContinue(exp_backoff(b, a))
    ELSE IF o.status = 429 THEN
        IF is_last_attempt(a, mr)
        THEN Finish(Raised("RateLimitError", 0, <<"Rate limit exceeded">>, ""))
        ELSE SleepAndContinue(retry_delay(o.header, b, a))
    ELSE IF error_class(o.status) = "COCAPIError"
        THEN Finish(Raised("COCAPIError", o.status, o.body, ""))
    ELSE IF error_class(o.status) # ""
        THEN Finish(Raised(error_class(o.status), 0, o.body, ""))
    ELSE IF json(o.body) # None
        THEN Finish(Returned(json(o.body)[1]))
    ELSE Finish(Raised("JSONDecodeError", 0, <<>>, ""))

----
\* ------------------------------------------------------------------------
\* The state machine
\* ------------------------------------------------------------------------

TagIdle == tag = <<>> /\ norm = <<>> /\ seg = <<>> /\ tpc = "idle"

\* A constructed client (lines 20-40) on which no method has been called.
Init ==
    /\ max_retries \in 0..MaxRetriesBound
    /\ backoff \in 0..MaxBackoff
    /\ endpoint = "" /\ tag_arg = <<>>
    /\ limit = None /\ after = None /\ before = None
    /\ paging = <<>> /\ http = NoHttp
    /\ pc = "init" /\ attempt = 0 /\ requests = 0
    /\ sleeps = <<>> /\ trace = <<>> /\ result = NoResult
    /\ TagIdle
    /\ calls = <<>>

\* A public method is called.  A paging method builds its query with
\* _paging_params first, which may raise; every method then enters _request.
Call(ep, tg, lim, aft, bef) ==
    /\ pc = "init"
    /\ endpoint' = ep /\ tag_arg' = tg
    /\ limit' = lim /\ after' = aft /\ before' = bef
    /\ LET pp == IF ep \in PagingEndpoints
                 THEN paging_params(lim, aft, bef)
                 ELSE [raised |-> FALSE, params |-> <<>>]
       IN  IF pp.raised
           THEN /\ pc' = "done"
                /\ result' = Raised("ValueError", 0, <<"Specify only one of 'after' or 'before'.">>, "")
                /\ paging' = <<>>
                /\ http' = NoHttp
           ELSE /\ pc' = "request"
                /\ result' = NoResult
                /\ paging' = pp.params
                /\ http' = [method |-> MethodOf(ep), url |-> BaseUrl \o PathOf(ep, tg),
                            params |-> OrNone(pp.params), json |-> JsonOf(ep)]
    /\ UNCHANGED <<attempt, requests, sleeps, trace>>
    /\ UNCHANGED <<cvars, tvars, calls>>

\* One iteration of the loop of _request (lines 305-330): the transport call
\* and everything the loop body does with its outcome.  When the loop runs
\* out of iterations the assert of line 332 fails.
Attempt(o) ==
    /\ pc = "request"
    /\ requests' = requests + 1
    /\ trace' = Append(trace, o)
    /\ LET r == LoopBody(o, attempt, max_retries, backoff)
       IN  /\ sleeps' = IF r.sleep = None THEN sleeps ELSE Append(sleeps, r.sleep[1])
           /\ IF r.next = "done"
              THEN /\ pc' = "done" /\ result' = r.result /\ attempt' = attempt
              ELSE IF attempt + 1 <= max_retries
              THEN /\ pc' = "request" /\ result' = NoResult /\ attempt' = attempt + 1
              ELSE /\ pc' = "done" /\ attempt' = attempt
                   /\ result' = Raised("AssertionError", 0, <<"unreachable">>, "")
    /\ UNCHANGED <<cvars, avars, tvars, calls>>

CallAny ==
    \E ep \in Endpoints :
        \E tg \in (IF ep \in TagEndpoints THEN CallTags ELSE {<<>>}) :
            \E lim \in (IF ep \in PagingEndpoints THEN LimitValues ELSE {None}) :
                \E aft \in (IF ep \in PagingEndpoints THEN AfterValues ELSE {None}) :
                    \E bef \in (IF ep \in PagingEndpoints THEN BeforeValues ELSE {None}) :
                        Call(ep, tg, lim, aft, bef)

AttemptAny == \E o \in Outcomes : Attempt(o)

Next == CallAny \/ AttemptAny

Spec == Init /\ [][Next]_vars

----
\* ------------------------------------------------------------------------
\* The tag normaliser on its own: _encode_tag applied to a raw tag, and again
\* to the tag it normalised
\* ------------------------------------------------------------------------

PipelineIdle ==
    /\ max_retries = 0 /\ backoff = 0
    /\ endpoint = "" /\ tag_arg = <<>>
    /\ limit = None /\ after = None /\ before = None
    /\ paging = <<>> /\ http = NoHttp
    /\ pc = "idle" /\ attempt = 0 /\ requests = 0
    /\ sleeps = <<>> /\ trace = <<>> /\ result = NoResult
    /\ calls = <<>>

InitTag ==
    /\ PipelineIdle
    /\ tag \in Tags
    /\ norm = <<>> /\ seg = <<>> /\ tpc = "raw"

\* _encode_tag(tag): lines 279-280.
Encode ==
    /\ tpc = "raw"
    /\ norm' = normalize_tag(tag)
    /\ seg' = encode_tag(tag)
    /\ tpc' = "encoded"
    /\ UNCHANGED <<tag, cvars, avars, rvars, calls>>

\* _encode_tag applied to the tag normalised by the first call.
Reencode ==
    /\ tpc = "encoded"
    /\ norm' = normalize_tag(norm)
    /\ seg' = encode_tag(norm)
    /\ tpc' = "reencoded"
    /\ UNCHANGED <<tag, cvars, avars, rvars, calls>>

NextTag == Encode \/ Reencode

SpecTag == InitTag /\ [][NextTag]_vars

----
\* ------------------------------------------------------------------------
\* Properties of the request pipeline (checked under Spec)
\* ------------------------------------------------------------------------

Is429(o) == o.kind = "response" /\ o.status = 429
IsTransportFailure(o) == o.kind \in {"Timeout", "ConnectionError"}
IsTransient(o) == Is429(o) \/ IsTransportFailure(o)
Is2xx(o) == o.kind = "response" /\ o.status >= 200 /\ o.status <= 299
Last(s) == s[Len(s)]
Max(x, y) == IF x >= y THEN x ELSE y

\* The number the Retry-After header hd of a response stands for, if any.
HasSeconds(hd) == hd # None /\ IsNumeral(hd[1])
Seconds(hd) == NumeralValue(hd[1])

\* C1 (as claimed): a call issues at most max_retries + 1 transport requests,
\* and a call that has ended with every attempt failing transiently (429 or
\* transport failure) has issued exactly max_retries + 1 of them.
C1_RetryBudget ==
    /\ requests <= max_retries + 1
    /\ (pc = "done" /\ trace # <<>> /\ \A i \in 1..Len(trace) : IsTransient(trace[i]))
          => requests = max_retries + 1

\* C2: a response with status 401/403, 404 or any other status >= 400 but 429
\* ends the call at once with AuthError, NotFoundError or COCAPIError (with the
\* status code and the body text): it is the last request of the call and no
\* sleep follows it, whatever the attempt it arrives on.
C2_TerminalErrors ==
    \A i \in 1..Len(trace) :
        LET o == trace[i]
        IN  (o.kind = "response" /\ o.status >= 400 /\ o.status # 429)
            => /\ i = Len(trace) /\ requests = i /\ pc = "done"
               /\ Len(sleeps) = i - 1
               /\ result = IF o.status \in {401, 403} THEN Raised("AuthError", 0, o.body, "")
                           ELSE IF o.status = 404 THEN Raised("NotFoundError", 0, o.body, "")
                           ELSE Raised("COCAPIError", o.status, o.body, "")

\* C2 witness: a 403 on a retry, with retries still left, ended the call.
C2_Witness ==
    /\ pc = "done" /\ attempt = 1 /\ max_retries = 2
    /\ Last(trace).kind = "response" /\ Last(trace).status = 403
    /\ result.exc = "AuthError"

\* C3 (as claimed): a 429 on an attempt before the last one is retried; the
\* call raises RateLimitError exactly when attempt number max_retries received
\* a 429; a 429 on the first attempt followed by a decodable 200 returns the
\* decoded payload after exactly two requests.
C3_RateLimit ==
    /\ \A i \in 1..Len(trace) :
          (Is429(trace[i]) /\ i - 1 < max_retries)
              => (Len(trace) > i \/ pc = "request")
    /\ (result.kind = "raise" /\ result.exc = "RateLimitError")
          <=> (pc = "done" /\ Len(trace) = max_retries + 1 /\ Is429(Last(trace)))
    /\ (Len(trace) >= 2 /\ Is429(trace[1]) /\ trace[2].kind = "response"
            /\ trace[2].status = 200 /\ json(trace[2].body) # None)
          => (pc = "done" /\ requests = 2 /\ result = Returned(json(trace[2].body)[1]))

\* C4 (as claimed): a transport failure on the last permitted attempt raises
\* an exception that wraps the failure and whose class is none of the classes
\* raised for an HTTP error status.
C4_NetworkErrorDistinct ==
    (pc = "done" /\ trace # <<>> /\ IsTransportFailure(Last(trace)))
        => /\ result.kind = "raise"
           /\ result.cause = Last(trace).kind
           /\ result.exc \notin {"COCAPIError", "AuthError", "NotFoundError", "RateLimitError"}

\* C5 (as claimed): when a 429 on attempt a < max_retries was followed by the
\* next attempt, the delay slept between the two is max(r, backoff * 2^a) when
\* Retry-After parses as r, and backoff * 2^a when the header is absent or
\* unparseable.
C5_DelayIsMax ==
    \A i \in 1..Len(trace) :
        (Is429(trace[i]) /\ i - 1 < max_retries /\ (i < Len(trace) \/ pc = "request"))
            => /\ Len(sleeps) >= i
               /\ sleeps[i] = IF HasSeconds(trace[i].header)
                              THEN Max(Seconds(trace[i].header), backoff * 2 ^ (i - 1))
                              ELSE backoff * 2 ^ (i - 1)

\* C5 (amended): after a 429 on attempt a < max_retries the delay passed to
\* time.sleep is r when Retry-After parses as a number r other than zero, and
\* backoff * 2^a when r is zero or the header is absent or unparseable.
C5_DelayIsHeaderUnlessZero ==
    \A i \in 1..Len(trace) :
        (Is429(trace[i]) /\ i - 1 < max_retries)
            => /\ Len(sleeps) >= i
               /\ sleeps[i] = IF HasSeconds(trace[i].header) /\ Seconds(trace[i].header) # 0
                              THEN Seconds(trace[i].header)
                              ELSE backoff * 2 ^ (i - 1)

\* C5 witness: a 429 with Retry-After 1 on the second attempt, where the
\* backoff is 2 * 2^1 = 4, was followed by a sleep of 1.
C5_Witness ==
    /\ backoff = 2 /\ Len(trace) >= 2 /\ Len(sleeps) >= 2
    /\ Is429(trace[2]) /\ trace[2].header = Some(<<"1">>)
    /\ sleeps[2] = 1

\* C6 (as claimed): whenever a retried 429 carries a numeric Retry-After that
\* differs from backoff * 2^attempt, zero included, the delay is the header
\* value.
C6_HeaderPrecedence ==
    \A i \in 1..Len(trace) :
        (/\ Is429(trace[i]) /\ i - 1 < max_retries
         /\ HasSeconds(trace[i].header)
         /\ Seconds(trace[i].header) # backoff * 2 ^ (i - 1))
            => (Len(sleeps) >= i /\ sleeps[i] = Seconds(trace[i].header))

\* C7 (as claimed): a 2xx response whose body is not valid JSON makes the call
\* raise COCAPIError, and nothing else.
C7_MalformedJsonIsApiError ==
    (pc = "done" /\ trace # <<>> /\ Is2xx(Last(trace)) /\ json(Last(trace).body) = None)
        => (result.kind = "raise" /\ result.exc = "COCAPIError")

\* C8 (as claimed): a call returns a value only if the final response had a
\* 2xx status, and a response with any status outside 200..299 other than
\* 401, 403, 404 and 429 makes it raise COCAPIError.
C8_OnlyTwoXXReturns ==
    /\ result.kind = "return" => Is2xx(Last(trace))
    /\ \A i \in 1..Len(trace) :
          (/\ trace[i].kind = "response" /\ ~Is2xx(trace[i])
           /\ trace[i].status \notin {401, 403, 404, 429})
              => (result.kind = "raise" /\ result.exc = "COCAPIError")

\* C9: a paging method called with both after and before raises ValueError
\* and no transport request has been issued, whatever the limit.
C9_BothCursorsRejected ==
    (endpoint \in PagingEndpoints /\ after # None /\ before # None)
        => /\ pc = "done"
           /\ result.kind = "raise" /\ result.exc = "ValueError"
           /\ requests = 0 /\ trace = <<>> /\ http = NoHttp

\* C9 witness: list_clan_members(limit=50, after="a", before="b") has raised.
C9_Witness ==
    /\ endpoint = "list_clan_members"
    /\ limit = Some(IntV(50)) /\ after = Some("a") /\ before = Some("b")
    /\ pc = "done" /\ result.exc = "ValueError"

----
\* ------------------------------------------------------------------------
\* Properties of the tag normaliser (checked under SpecTag)
\* ------------------------------------------------------------------------

\* The first character of t other than "#", "" if there is none.
FirstNonHash(t) ==
    LET idx == {i \in 1..Len(t) : t[i] # "#"}
    IN  IF idx = {} THEN "" ELSE t[CHOOSE i \in idx : \A j \in idx : i <= j]

\* Tags in which whitespace does not come first nor directly after the
\* leading "#" characters, whitespace at the very end aside.
NoSpaceBeforeId(t) == ~IsSpace(FirstNonHash(rstrip_space(t)))

\* The relations of C10 for the raw tag of the state.
TagRelations ==
    /\ tpc = "encoded"
          => /\ seg = encode_tag(<<"#">> \o tag)
             /\ seg = encode_tag(lower(tag))
             /\ seg = encode_tag(upper(tag))
    /\ tpc = "reencoded" => seg = encode_tag(tag)

\* C10 (as claimed): for every tag t, _encode_tag gives the same segment for
\* t, "#" + t, t in lower case and t in upper case, and encoding the
\* normalised tag again gives the same segment.
C10_EveryTag == TagRelations

\* C10 (amended): the same, for every tag t in which whitespace comes neither
\* first nor directly after the leading "#" characters (whitespace that ends
\* the tag aside).
C10_TagsWithoutLeadingSpace == NoSpaceBeforeId(tag) => TagRelations

\* C10 witness: "#2a" was encoded as %232A, and encoding its normal form "2A"
\* again gave %232A.
C10_Witness ==
    /\ tag = <<"#", "2", "a">> /\ tpc = "reencoded"
    /\ norm = <<"2", "A">> /\ seg = <<"%23", "2", "A">>

----
\* ------------------------------------------------------------------------
\* Properties of the endpoint methods (checked under Spec)
\* ------------------------------------------------------------------------

\* The paging arguments that were supplied (not None).
Supplied ==
    {k \in {"limit", "after", "before"} :
        \/ k = "limit" /\ limit # None
        \/ k = "after" /\ after # None
        \/ k = "before" /\ before # None}

\* The path template of each tag-taking method, around the segment sg.
Template(ep, sg) ==
    CASE ep = "get_player" -> <<"/players/">> \o sg
      [] ep = "verify_player_token" -> <<"/players/">> \o sg \o <<"/verifytoken">>
      [] ep = "list_clan_members" -> <<"/clans/">> \o sg \o <<"/members">>

ClanTag == <<"#", "2", "G", "P", "V", "U", "Q", "Y", "P", "J">>
ClanSegment == <<"%23", "2", "G", "P", "V", "U", "Q", "Y", "P", "J">>

\* C11: a tag-taking method that got past its argument checks has sent one
\* request, whose path is the method's template around the normalised tag
\* segment and whose query holds exactly the supplied paging fields, None when
\* there is none; list_clan_members("#2GPVUQYPJ", limit=50) requests
\* /clans/%232GPVUQYPJ/members with query {limit: 50}.
C11_PathAndQuery ==
    (endpoint \in TagEndpoints /\ ~(after # None /\ before # None))
        => /\ http # NoHttp
           /\ tag_arg = ClanTag => http.url = BaseUrl \o Template(endpoint, ClanSegment)
           /\ IF Supplied = {} THEN http.params = None
              ELSE /\ http.params # None
                   /\ DOMAIN http.params[1] = Supplied
           /\ (endpoint = "list_clan_members" /\ limit = Some(IntV(50))
                  /\ after = None /\ before = None)
                 => /\ http.url = <<"https://api.clashofclans.com/v1", "/clans/",
                                    "%23", "2", "G", "P", "V", "U", "Q", "Y", "P", "J",
                                    "/members">>
                    /\ http.params = Some([k \in {"limit"} |-> IntV(50)])

\* C11 witness: list_clan_members("#2GPVUQYPJ", limit=50) was sent and the
\* call returned.
C11_Witness ==
    /\ endpoint = "list_clan_members" /\ tag_arg = ClanTag
    /\ limit = Some(IntV(50)) /\ after = None /\ before = None
    /\ http.params # None /\ DOMAIN http.params[1] = {"limit"}
    /\ pc = "done" /\ result.kind = "return"

----
\* ------------------------------------------------------------------------
\* Two calls of _request in flight on one client (two threads, or one call
\* after the other): each has its own frame, the client is shared
\* ------------------------------------------------------------------------

CallIds == {1, 2}

\* The transport outcomes of the interleaved calls: two kinds of 429, a
\* timeout, a success and a server error.
TwoOutcomes ==
    {Response(429, None, <<>>), Response(429, Some(<<"1">>), <<>>),
     TransportError("Timeout"),
     Response(200, None, <<"{", "}">>), Response(500, None, <<>>)}

\* The frame of a call that has just entered _request (lines 302-305).
NewFrame ==
    [pc |-> "request", attempt |-> 0, requests |-> 0,
     sleeps |-> <<>>, trace |-> <<>>, result |-> NoResult]

\* A mutant of frame_attempt: one attempt counter kept on the client and
\* advanced by every call.
client_attempt(cs, c) == cs[1].requests + cs[2].requests

\* Line 305: attempt is the loop variable of the frame of call c.
frame_attempt(cs, c) == cs[c].attempt

InitTwo ==
    /\ max_retries \in 0..MaxRetriesBound
    /\ backoff \in 0..MaxBackoff
    /\ endpoint = "" /\ tag_arg = <<>>
    /\ limit = None /\ after = None /\ before = None
    /\ paging = <<>> /\ http = NoHttp
    /\ pc = "idle" /\ attempt = 0 /\ requests = 0
    /\ sleeps = <<>> /\ trace = <<>> /\ result = NoResult
    /\ TagIdle
    /\ calls = [c \in CallIds |-> NewFrame]

\* One iteration of the loop of _request (lines 305-330) in call c.
AttemptOf(c, o) ==
    /\ calls[c].pc = "request"
    /\ LET f == calls[c]
           a == frame_attempt(calls, c)
           r == LoopBody(o, a, max_retries, backoff)
           slept == IF r.sleep = None THEN f.sleeps ELSE Append(f.sleeps, r.sleep[1])
           g == [f EXCEPT !.requests = f.requests + 1,
                          !.trace = Append(f.trace, o),
                          !.sleeps = slept]
       IN  calls' = [calls EXCEPT ![c] =
                IF r.next = "done"
                THEN [g EXCEPT !.pc = "done", !.result = r.result]
                ELSE IF a + 1 <= max_retries
                THEN [g EXCEPT !.attempt = a + 1]
                ELSE [g EXCEPT !.pc = "done",
                               !.result = Raised("AssertionError", 0, <<"unreachable">>, "")]]
    /\ UNCHANGED <<cvars, avars, rvars, tvars>>

NextTwo == \E c \in CallIds : \E o \in TwoOutcomes : AttemptOf(c, o)

SpecTwo == InitTwo /\ [][NextTwo]_vars

\* What a call does with outcome o on its own attempt number a, stated from
\* the call's own attempts alone.
OwnDelay(o, a) ==
    IF Is429(o) /\ HasSeconds(o.header) /\ Seconds(o.header) # 0
    THEN Seconds(o.header)
    ELSE backoff * 2 ^ a
OwnResult(o) ==
    IF IsTransportFailure(o) THEN Raised("COCAPIError", 0, <<o.kind>>, o.kind)
    ELSE IF o.status = 429 THEN Raised("RateLimitError", 0, <<"Rate limit exceeded">>, "")
    ELSE IF o.status = 500 THEN Raised("COCAPIError", 500, o.body, "")
    ELSE Returned("dict")

\* C12: with two calls interleaved, each call's attempt counter counts its own
\* attempts from 0, each call has max_retries + 1 attempts of its own, and
\* each call's sleeps, end and outcome are decided by its own transport
\* outcomes alone.
C12_RetryStateLocal ==
    \A c \in CallIds :
        LET f == calls[c]
            n == Len(f.trace)
        IN  /\ f.requests = n /\ n <= max_retries + 1
            /\ f.pc = "request" => f.attempt = n
            /\ \A i \in 1..n :
                  (IsTransient(f.trace[i]) /\ i <= max_retries)
                      => (Len(f.sleeps) >= i /\ f.sleeps[i] = OwnDelay(f.trace[i], i - 1))
            /\ f.pc = "done"
                  <=> (n >= 1 /\ (~IsTransient(f.trace[n]) \/ n = max_retries + 1))
            /\ f.pc = "done" => f.result = OwnResult(f.trace[n])

\* C12 witness: both calls used all three attempts of their own and both
\* ended with RateLimitError.
C12_Witness ==
    /\ max_retries = 2
    /\ \A c \in CallIds :
          /\ calls[c].pc = "done" /\ calls[c].requests = 3
          /\ calls[c].result.exc = "RateLimitError"

----
\* ------------------------------------------------------------------------
\* Further properties of the request pipeline (checked under Spec)
\* ------------------------------------------------------------------------

\* The number of calls of time.sleep that returned, that is, that slept: a
\* call of time.sleep that raises ValueError has not slept.
TimesSlept == Cardinality({i \in 1..Len(sleeps) : sleeps[i] >= 0})

\* C13: a transport failure on attempt a < max_retries is followed by a sleep
\* of backoff * 2^a and then by attempt a + 1; a transport failure on attempt
\* max_retries raises with no sleep; a call that has ended after n attempts
\* has slept n - 1 times.
C13_TransportBackoff ==
    /\ \A i \in 1..Len(trace) :
          IsTransportFailure(trace[i])
              => IF i - 1 < max_retries
                 THEN /\ Len(sleeps) >= i /\ sleeps[i] = backoff * 2 ^ (i - 1)
                      /\ (Len(trace) > i \/ pc = "request")
                 ELSE /\ pc = "done" /\ result.kind = "raise"
                      /\ Len(sleeps) = i - 1
    /\ (pc = "done" /\ trace # <<>>) => TimesSlept = requests - 1

\* C13 witness: three transport failures in a row with backoff 1: sleeps of
\* 1 and 2, then the raise with no third sleep.
C13_Witness ==
    /\ max_retries = 2 /\ backoff = 1 /\ pc = "done"
    /\ Len(trace) = 3 /\ \A i \in 1..3 : IsTransportFailure(trace[i])
    /\ sleeps = <<1, 2>> /\ result.kind = "raise"

----
\* ------------------------------------------------------------------------
\* Further properties of the tag normaliser (checked under SpecTag)
\* ------------------------------------------------------------------------

\* The number of "#" characters t begins with.
LeadingHashes(t) ==
    LET idx == {i \in 1..Len(t) : t[i] # "#"}
    IN  IF idx = {} THEN Len(t) ELSE (CHOOSE i \in idx : \A j \in idx : i <= j) - 1

\* t without its first n characters.
Drop(t, n) == SubSeq(t, n + 1, Len(t))

\* The raw tag of the state, trimmed and in upper case.
Trimmed == upper(strip(tag))

\* C14 (as claimed): at most one leading "#" is stripped: a trimmed, upper-case
\* tag that begins with k >= 2 "#" characters keeps k - 1 of them,
\* percent-encoded, after the "%23" prefix.
C14_StripsOneHash ==
    tpc = "encoded"
        => seg = <<"%23">> \o quote(IF LeadingHashes(Trimmed) >= 1
                                    THEN Drop(Trimmed, 1) ELSE Trimmed)

\* C14 (amended): every leading "#" is stripped: a trimmed, upper-case tag
\* that begins with k >= 1 "#" characters keeps none of them, and the segment
\* is "%23" followed by the percent-encoded rest.
C14_StripsEveryHash ==
    tpc = "encoded"
        => seg = <<"%23">> \o quote(Drop(Trimmed, LeadingHashes(Trimmed)))

\* C14 witness: "##A" was encoded as %23A.
C14_Witness ==
    /\ tag = <<"#", "#", "A">> /\ tpc = "encoded"
    /\ seg = <<"%23", "A">>

----
\* ------------------------------------------------------------------------
\* Properties of the paging builder (checked under Spec)
\* ------------------------------------------------------------------------

\* The integer the limit argument of the state stands for.
LimitAsInteger ==
    CASE limit = Some(IntV(50)) -> 50
      [] limit = Some(StrV(<<"7">>)) -> 7

\* C15: when after and before are not both supplied, the dict returned by
\* _paging_params has exactly the supplied fields as keys, limit as an
\* integer and the cursors as given; it is the empty dict when none is
\* supplied.
C15_PagingMapping ==
    (endpoint \in PagingEndpoints /\ ~(after # None /\ before # None))
        => /\ DOMAIN paging = Supplied
           /\ limit # None => paging["limit"] = IntV(LimitAsInteger)
           /\ after # None => paging["after"] = StrV(<<after[1]>>)
           /\ before # None => paging["before"] = StrV(<<before[1]>>)
           /\ Supplied = {} => paging = <<>>

\* C15 witness: list_locations(limit="7", after="a") built {limit: 7, after: "a"}.
C15_Witness ==
    /\ endpoint = "list_locations"
    /\ limit = Some(StrV(<<"7">>)) /\ after = Some("a") /\ before = None
    /\ DOMAIN paging = {"limit", "after"}
    /\ paging["limit"] = IntV(7) /\ paging["after"] = StrV(<<"a">>)

----
\* ------------------------------------------------------------------------
\* The end of the retry loop and the delays (checked under Spec)
\* ------------------------------------------------------------------------

\* C16: the loop of _request is never left by running out of iterations: the
\* loop variable stays within 0..max_retries, a call that has ended returned
\* or raised from inside the loop body, and the assert after the loop has not
\* failed.
C16_AssertUnreachable ==
    /\ attempt <= max_retries
    /\ requests <= max_retries + 1
    /\ result.exc # "AssertionError"
    /\ (pc = "done" /\ trace # <<>>) => result.kind \in {"return", "raise"}
    /\ pc = "request" => result.kind = "none"

\* C16 witness: the last permitted attempt got a 429 after two transient
\* failures, and the call ended there with RateLimitError.
C16_Witness ==
    /\ max_retries = 2 /\ pc = "done" /\ attempt = 2
    /\ Len(trace) = 3 /\ \A i \in 1..3 : IsTransient(trace[i])
    /\ result.exc = "RateLimitError"

\* C17 (as claimed): every delay passed to time.sleep is >= 0, whatever the
\* Retry-After header of a 429.
C17_DelaysNonNegative ==
    \A i \in 1..Len(sleeps) : sleeps[i] >= 0

====
